---- MODULE Spec2Model ----
(***************************************************************************)
(* Model of reading_app/main.py: the countdown-enforced, input-locked      *)
(* rules window (ReadWindow) and the configuration loader (load_config).   *)
(*                                                                         *)
(* Time is the monotonic clock counted in units of 1/Res second.           *)
(* The record st holds the fields of the ReadWindow object together with   *)
(* the platform state its WinAPI calls act on (installed hooks, the        *)
(* ShowCursor display counter, running QTimers that are no longer          *)
(* referenced by the object).                                              *)
(***************************************************************************)
EXTENDS Integers, Sequences, FiniteSets, TLC

VARIABLES IS_WINDOWS, file, CFG, lock_seconds, st, now, visible, exited,
          shows, first_start, lastOp

vars == <<IS_WINDOWS, file, CFG, lock_seconds, st, now, visible, exited,
          shows, first_start, lastOp>>

\* ---------------------------------------------------------------- bounds
Res == 2
MaxLock == 2
MaxTime == 8
MaxShows == 2
MaxSkew == 2

\* ------------------------------------------------------------- constants
None == -1
HHOOK == 1
NULL == 0

Max(a, b) == IF a >= b THEN a ELSE b

\* math.ceil of a duration of d clock units, in seconds
Ceil(d) == -((-d) \div Res)

\* Python truthiness of a hook handle: None and 0 are falsy
Truthy(h) == h # None /\ h # NULL

\* ============================================================ load_config
\* JSON values.  A file's object is a function on AllKeys whose absent keys
\* map to Absent; a list is the set of the strings it holds; SubKeys(t) is
\* the set of keys that are substrings of the text t (Python's `k in data`
\* on a str is a substring test).
Keys == {"title", "lock_seconds", "window", "font_point_size",
         "requirements_markdown"}
WKeys == {"width", "height"}
ExtraKey == "theme"
AllKeys == Keys \cup {ExtraKey}

Absent == [kind |-> "absent"]
JNull == [kind |-> "null"]
JInt(n) == [kind |-> "int", n |-> n]
JStr(t) == [kind |-> "str", text |-> t]
JList(e) == [kind |-> "list", elems |-> e]
JDict(f) == [kind |-> "dict", items |-> f]

DefaultWindow == JDict([k \in WKeys |-> IF k = "width" THEN JInt(900) ELSE JInt(600)])

default ==
  JDict([k \in AllKeys |->
     CASE k = "title" -> JStr("reading room rules")
       [] k = "lock_seconds" -> JInt(5)
       [] k = "window" -> DefaultWindow
       [] k = "font_point_size" -> JInt(12)
       [] k = "requirements_markdown" -> JStr("rules.md")
       [] OTHER -> Absent])

AllKeysText == "title lock_seconds window font_point_size requirements_markdown"

SubKeys(t) ==
  CASE t = AllKeysText -> Keys
    [] t = "window" -> {"window"}
    [] OTHER -> {}

\* Python's `k in data`; "TypeError" when data is not a container
Contains(data, k) ==
  CASE data.kind = "dict" -> IF data.items[k] # Absent THEN "yes" ELSE "no"
    [] data.kind = "str" -> IF k \in SubKeys(data.text) THEN "yes" ELSE "no"
    [] data.kind = "list" -> IF k \in data.elems THEN "yes" ELSE "no"
    [] OTHER -> "TypeError"

\* an exception raised inside the try block of lines 75-89
PyRaise == [kind |-> "raise"]

\* lines 79-81: for k, v in default.items(): if k not in data: data[k] = v
\* (item assignment on a str or a list raises TypeError)
MergeTop(data) ==
  IF \E k \in Keys : Contains(data, k) = "TypeError" THEN PyRaise
  ELSE IF data.kind # "dict"
       THEN IF \E k \in Keys : Contains(data, k) = "no" THEN PyRaise ELSE data
       ELSE JDict([k \in AllKeys |->
               IF k \in Keys /\ data.items[k] = Absent
               THEN default.items[k] ELSE data.items[k]])

\* lines 83-88: nested window defaults (data["window"] raises on str/list)
MergeWindowKeepsNonDict(data) ==
  IF data.kind # "dict" THEN PyRaise
  ELSE LET win == data.items["window"] IN
       IF win = Absent THEN [data EXCEPT !.items["window"] = DefaultWindow]
       ELSE IF win.kind # "dict" THEN data
       ELSE [data EXCEPT !.items["window"] =
               JDict([wk \in WKeys |-> IF win.items[wk] = Absent
                                       THEN DefaultWindow.items[wk]
                                       ELSE win.items[wk]])]

MergeWindow(data) ==
  IF data.kind # "dict" THEN PyRaise
  ELSE LET win == data.items["window"] IN
       IF win = Absent \/ win.kind # "dict"
       THEN [data EXCEPT !.items["window"] = DefaultWindow]
       ELSE [data EXCEPT !.items["window"] =
               JDict([wk \in WKeys |-> IF win.items[wk] = Absent
                                       THEN DefaultWindow.items[wk]
                                       ELSE win.items[wk]])]

\* A config.json: missing, unreadable, not valid JSON, or a JSON value
NoFile == [kind |-> "missing"]
Unreadable == [kind |-> "unreadable"]
Malformed == [kind |-> "malformed"]
JsonFile(v) == [kind |-> "json", data |-> v]

load_config_partial(f) ==
  IF f.kind = "missing" THEN default
  ELSE IF f.kind \in {"unreadable", "malformed"} THEN default
  ELSE LET top == MergeTop(f.data) IN
       IF top = PyRaise THEN f.data
       ELSE LET merged == MergeWindow(top) IN
            IF merged = PyRaise THEN top ELSE merged

load_config(f) ==
  IF f.kind = "missing" THEN default
  ELSE IF f.kind \in {"unreadable", "malformed"} THEN default
  ELSE LET top == MergeTop(f.data) IN
       IF top = PyRaise THEN default
       ELSE LET merged == MergeWindow(top) IN
            IF merged = PyRaise THEN default ELSE merged

\* CFG.get("lock_seconds"): None when the key is absent or null
cfg_get(cfg, k) ==
  IF cfg.kind = "dict" /\ cfg.items[k] # Absent /\ cfg.items[k] # JNull
  THEN cfg.items[k] ELSE JNull

\* Python's int(v): the integer itself, the number a numeric text spells,
\* ValueError for any other text, TypeError for a list, a dict or None
py_int(v) ==
  CASE v.kind = "int" -> [ok |-> TRUE, n |-> v.n]
    [] v.kind = "str" -> IF v.text = "10" THEN [ok |-> TRUE, n |-> 10]
                         ELSE [ok |-> FALSE, n |-> 0]
    [] OTHER -> [ok |-> FALSE, n |-> 0]

\* line 127: the argument of int(), cfg_lock if it is not None else lock_seconds
lock_arg(cfg, arg) ==
  LET cfg_lock == cfg_get(cfg, "lock_seconds") IN
  IF cfg_lock = JNull THEN JInt(arg) ELSE cfg_lock

\* line 127: int() raises and __init__ fails
init_raises(cfg, arg) == ~py_int(lock_arg(cfg, arg)).ok

\* lines 126-127: max(1, int(cfg_lock if cfg_lock is not None else lock_seconds))
init_lock_seconds(cfg, arg) == Max(1, py_int(lock_arg(cfg, arg)).n)

\* ------------------------------------------------ the files that are drawn
WindowValues ==
  {Absent, JInt(7)} \cup
  {JDict(f) : f \in [WKeys -> {Absent, JInt(1024)}]}

FileValues(k) ==
  CASE k = "title" -> {Absent, JStr("custom")}
    [] k = "lock_seconds" -> {Absent, JNull, JInt(0), JInt(10), JStr("abc")}
    [] k = "window" -> WindowValues
    [] k = "font_point_size" -> {Absent, JInt(10)}
    [] k = "requirements_markdown" -> {Absent, JStr("custom")}
    [] OTHER -> {Absent, JStr("custom")}

Objects ==
  {JDict([k \in AllKeys |->
      CASE k = "title" -> t
        [] k = "lock_seconds" -> l
        [] k = "window" -> w
        [] k = "font_point_size" -> p
        [] k = "requirements_markdown" -> r
        [] OTHER -> x]) :
     t \in FileValues("title"), l \in FileValues("lock_seconds"),
     w \in FileValues("window"), p \in FileValues("font_point_size"),
     r \in FileValues("requirements_markdown"), x \in FileValues(ExtraKey)}

NonObjects ==
  {JNull, JInt(10), JStr("custom"), JStr(AllKeysText), JStr("window"),
   JList({}), JList(Keys), JList({"lock_seconds"})}

Files == {NoFile, Unreadable, Malformed}
         \cup {JsonFile(v) : v \in Objects \cup NonObjects}

Unloaded == [kind |-> "unloaded"]

\* ============================================================= ReadWindow
\* Outcomes of the platform calls made by one start_enforcement
HookOutcomes == {"ok", "null", "raise"}
CallOutcomes == {"ok", "raise"}
Envs == [hook : HookOutcomes, hide : CallOutcomes, pin : CallOutcomes,
         skew : 0..MaxSkew]

\* lines 123-135, 173-174: the object after __init__
NewWindow(ls) ==
  [remaining |-> ls, deadline |-> None,
   mouse_lock_timer |-> FALSE, countdown_timer |-> FALSE,
   kb_hook |-> None, kb_proc |-> FALSE, cursor_hidden |-> FALSE,
   close_enabled |-> FALSE, info |-> "intro", shown |-> ls,
   \* platform side
   orphan_mouse |-> 0, orphan_countdown |-> 0,
   os_hooks |-> 0, cursor_count |-> 0, pinned |-> FALSE,
   hook_calls |-> 0, unhook_calls |-> 0, hide_calls |-> 0, show_calls |-> 0,
   raised |-> FALSE]

\* lines 280-281
update_info(s) == [s EXCEPT !.info = "countdown", !.shown = s.remaining]

\* lines 307-324; an exception of the platform calls is caught at line 322
install_keyboard_blocker_propagates(s, hook) ==
  IF ~IS_WINDOWS \/ Truthy(s.kb_hook) THEN s
  ELSE CASE hook = "ok" ->
              [s EXCEPT !.kb_proc = TRUE, !.kb_hook = HHOOK,
                        !.os_hooks = @ + 1, !.hook_calls = @ + 1]
         [] hook = "null" -> [s EXCEPT !.kb_proc = TRUE, !.kb_hook = NULL]
         [] OTHER -> [s EXCEPT !.raised = TRUE]

install_keyboard_blocker_unguarded(s, hook) ==
  IF ~IS_WINDOWS THEN s
  ELSE CASE hook = "ok" ->
              [s EXCEPT !.kb_proc = TRUE, !.kb_hook = HHOOK,
                        !.os_hooks = @ + 1, !.hook_calls = @ + 1]
         [] hook = "null" -> [s EXCEPT !.kb_proc = TRUE, !.kb_hook = NULL]
         [] OTHER -> [s EXCEPT !.kb_hook = None, !.kb_proc = FALSE]

install_keyboard_blocker(s, hook) ==
  IF ~IS_WINDOWS \/ Truthy(s.kb_hook) THEN s
  ELSE CASE hook = "ok" ->
              [s EXCEPT !.kb_proc = TRUE, !.kb_hook = HHOOK,
                        !.os_hooks = @ + 1, !.hook_calls = @ + 1]
         [] hook = "null" -> [s EXCEPT !.kb_proc = TRUE, !.kb_hook = NULL]
         [] OTHER -> [s EXCEPT !.kb_hook = None, !.kb_proc = FALSE]

\* lines 32-36: the hook messages
WM_KEYDOWN == 256
WM_KEYUP == 257
WM_SYSKEYDOWN == 260
WM_SYSKEYUP == 261
KeyMessages == {WM_KEYDOWN, WM_KEYUP, WM_SYSKEYDOWN, WM_SYSKEYUP}
\* the nCode of a keyboard event the hook has to process
HC_ACTION == 0

\* lines 311-317: TRUE when the hook procedure returns 1 (the event is
\* swallowed), FALSE when it forwards the event with CallNextHookEx
low_level_proc(s, nCode, wParam) ==
  s.remaining > 0 /\ nCode = 0
  /\ wParam \in {WM_KEYDOWN, WM_SYSKEYDOWN, WM_KEYUP, WM_SYSKEYUP}

\* lines 326-336
uninstall_keyboard_blocker(s) ==
  IF ~IS_WINDOWS THEN s
  ELSE LET s1 == IF Truthy(s.kb_hook)
                 THEN [s EXCEPT !.os_hooks = @ - 1, !.unhook_calls = @ + 1]
                 ELSE s
       IN [s1 EXCEPT !.kb_hook = None, !.kb_proc = FALSE]

\* lines 257-264: SetCursorPos to the screen centre, failure ignored
_hold_cursor_center(s, pin) ==
  IF ~IS_WINDOWS THEN s
  ELSE IF pin = "ok" THEN [s EXCEPT !.pinned = TRUE] ELSE s

\* lines 224-248, called at clock reading t; e.skew is the time that passes
\* between the two time.monotonic() readings of lines 240 and 245
start_enforcement(s, t, e) ==
  LET s1 == IF IS_WINDOWS THEN install_keyboard_blocker(s, e.hook) ELSE s
      s2 == [s1 EXCEPT
               !.orphan_mouse = @ + (IF s1.mouse_lock_timer THEN 1 ELSE 0),
               !.mouse_lock_timer = TRUE]
      s3 == IF ~IS_WINDOWS THEN s2
            ELSE IF e.hide = "ok"
                 THEN [s2 EXCEPT !.cursor_count = @ - 1, !.hide_calls = @ + 1,
                                 !.cursor_hidden = TRUE]
                 ELSE [s2 EXCEPT !.cursor_hidden = FALSE]
      dl == t + lock_seconds * Res
      s4 == [s3 EXCEPT
               !.deadline = dl,
               !.orphan_countdown = @ + (IF s3.countdown_timer THEN 1 ELSE 0),
               !.countdown_timer = TRUE]
      s5 == update_info([s4 EXCEPT !.remaining = Max(0, Ceil(dl - (t + e.skew)))])
  IN IF s1.raised THEN s1 ELSE _hold_cursor_center(s5, e.pin)

\* lines 283-304
release_enforcement_keeps_hook(s) ==
  LET s1 == [s EXCEPT !.countdown_timer = FALSE, !.deadline = None,
                      !.mouse_lock_timer = FALSE]
      s2 == IF IS_WINDOWS /\ s1.cursor_hidden
            THEN [s1 EXCEPT !.cursor_count = @ + 1, !.show_calls = @ + 1,
                            !.cursor_hidden = FALSE]
            ELSE s1
  IN [s2 EXCEPT !.info = "released", !.close_enabled = TRUE]

release_enforcement_keeps_flag(s) ==
  LET s1 == [s EXCEPT !.countdown_timer = FALSE, !.deadline = None,
                      !.mouse_lock_timer = FALSE]
      s2 == IF IS_WINDOWS /\ s1.cursor_hidden
            THEN [s1 EXCEPT !.cursor_count = @ + 1, !.show_calls = @ + 1]
            ELSE s1
      s3 == IF IS_WINDOWS THEN uninstall_keyboard_blocker(s2) ELSE s2
  IN [s3 EXCEPT !.info = "released", !.close_enabled = TRUE]

release_enforcement(s) ==
  LET s1 == [s EXCEPT !.countdown_timer = FALSE, !.deadline = None,
                      !.mouse_lock_timer = FALSE]
      s2 == IF IS_WINDOWS /\ s1.cursor_hidden
            THEN [s1 EXCEPT !.cursor_count = @ + 1, !.show_calls = @ + 1,
                            !.cursor_hidden = FALSE]
            ELSE s1
      s3 == IF IS_WINDOWS THEN uninstall_keyboard_blocker(s2) ELSE s2
  IN [s3 EXCEPT !.info = "released", !.close_enabled = TRUE]

\* lines 266-278, at clock reading t
_tick_early(s, t) ==
  IF s.deadline = None THEN s
  ELSE LET rem == Ceil(s.deadline - t) IN
       IF rem <= 1 THEN release_enforcement([s EXCEPT !.remaining = 0])
       ELSE IF rem # s.remaining
            THEN update_info([s EXCEPT !.remaining = rem])
            ELSE s

_tick_late(s, t) ==
  IF s.deadline = None THEN s
  ELSE LET rem == Ceil(s.deadline - t) IN
       IF rem < 0 THEN release_enforcement([s EXCEPT !.remaining = 0])
       ELSE IF rem # s.remaining
            THEN update_info([s EXCEPT !.remaining = rem])
            ELSE s

_tick(s, t) ==
  IF s.deadline = None THEN s
  ELSE LET rem == Ceil(s.deadline - t) IN
       IF rem <= 0 THEN release_enforcement([s EXCEPT !.remaining = 0])
       ELSE IF rem # s.remaining
            THEN update_info([s EXCEPT !.remaining = rem])
            ELSE s

\* lines 338-341: the close event after the handler (TRUE = accepted);
\* a QCloseEvent is delivered accepted and the handler ignores it
closeEvent_accepts_when_released(s) == s.close_enabled

closeEvent(s) == FALSE

\* lines 343-348: the state in which the process exits
safe_close(s) == release_enforcement(s)

\* --------------------------------------------------------------- actions
\* State after module import and ReadWindow(lock_seconds=5), before w.show()
Init ==
  /\ IS_WINDOWS \in BOOLEAN
  /\ \E n \in 1..MaxLock : file = JsonFile([default EXCEPT !.items["lock_seconds"] = JInt(n)])
  /\ CFG = load_config(file)
  /\ lock_seconds = init_lock_seconds(CFG, 5)
  /\ st = NewWindow(lock_seconds)
  /\ now = 0
  /\ visible = FALSE
  /\ exited = FALSE
  /\ shows = 0
  /\ first_start = None
  /\ lastOp = "init"

\* the monotonic clock advances by one unit
Advance ==
  /\ ~exited
  /\ now < MaxTime
  /\ now' = now + 1
  /\ lastOp' = "advance"
  /\ UNCHANGED <<IS_WINDOWS, file, CFG, lock_seconds, st, visible, exited,
                 shows, first_start>>

\* lines 186-190: the window becomes visible (w.show(), or it is restored
\* after having been hidden or minimized)
showEvent ==
  /\ ~exited /\ ~visible
  /\ shows < MaxShows
  /\ \E e \in Envs :
       /\ now + lock_seconds * Res <= MaxTime
       /\ now + e.skew <= MaxTime
       /\ st' = start_enforcement(st, now, e)
       /\ now' = now + e.skew
  /\ visible' = TRUE
  /\ shows' = shows + 1
  /\ first_start' = IF first_start = None THEN now ELSE first_start
  /\ lastOp' = "showEvent"
  /\ UNCHANGED <<IS_WINDOWS, file, CFG, lock_seconds, exited>>

\* lines 192-198: the window is hidden or minimized by the window system;
\* the handler restores it, which delivers a further show event
hideEvent ==
  /\ ~exited /\ visible
  /\ visible' = FALSE
  /\ lastOp' = "hideEvent"
  /\ UNCHANGED <<IS_WINDOWS, file, CFG, lock_seconds, st, now, exited,
                 shows, first_start>>

\* a countdown QTimer (line 241-243) that is still running fires
Tick ==
  /\ ~exited
  /\ st.countdown_timer \/ st.orphan_countdown > 0
  /\ st' = _tick(st, now)
  /\ lastOp' = "_tick"
  /\ UNCHANGED <<IS_WINDOWS, file, CFG, lock_seconds, now, visible, exited,
                 shows, first_start>>

\* a pointer-repin QTimer (lines 229-231) that is still running fires
HoldCursor ==
  /\ ~exited
  /\ st.mouse_lock_timer \/ st.orphan_mouse > 0
  /\ \E pin \in CallOutcomes : st' = _hold_cursor_center(st, pin)
  /\ lastOp' = "_hold_cursor_center"
  /\ UNCHANGED <<IS_WINDOWS, file, CFG, lock_seconds, now, visible, exited,
                 shows, first_start>>

\* a close request (native close button, Alt+F4) reaches closeEvent; an
\* accepted close event hides the window and, it being the last window, ends
\* app.exec() and the process
CloseRequest ==
  /\ ~exited /\ visible
  /\ LET accepted == closeEvent(st) IN
       /\ visible' = ~accepted
       /\ exited' = accepted
  /\ lastOp' = "closeEvent"
  /\ UNCHANGED <<IS_WINDOWS, file, CFG, lock_seconds, st, now, shows,
                 first_start>>

\* line 175: close_btn.clicked, emitted only by an enabled button
Dismiss ==
  /\ ~exited /\ visible
  /\ st.close_enabled
  /\ st' = safe_close(st)
  /\ exited' = TRUE
  /\ lastOp' = "safe_close"
  /\ UNCHANGED <<IS_WINDOWS, file, CFG, lock_seconds, now, visible, shows,
                 first_start>>

Next ==
  \/ Advance
  \/ showEvent
  \/ hideEvent
  \/ Tick
  \/ HoldCursor
  \/ CloseRequest
  \/ Dismiss

Spec == Init /\ [][Next]_vars

\* the event loop keeps running timers firing and the clock keeps advancing
LiveSpec == Init /\ [][Next]_vars /\ WF_vars(Advance) /\ WF_vars(Tick)

\* a key event occurs: the system hands it to the installed hook procedure,
\* and with no hook installed it reaches the applications
KeyEvent ==
  /\ ~exited
  /\ \E wParam \in KeyMessages :
       lastOp' = IF st.os_hooks > 0 /\ low_level_proc(st, HC_ACTION, wParam)
                 THEN "key_blocked" ELSE "key_passed"
  /\ UNCHANGED <<IS_WINDOWS, file, CFG, lock_seconds, st, now, visible,
                 exited, shows, first_start>>

KeyNext ==
  \/ Advance
  \/ showEvent
  \/ hideEvent
  \/ Tick
  \/ HoldCursor
  \/ CloseRequest
  \/ Dismiss
  \/ KeyEvent

\* the window machine together with the keyboard events of the session
KeySpec == Init /\ [][KeyNext]_vars

\* ------------------------------------------- configuration loading alone
\* State before `CFG = load_config()` (line 118), for every config.json drawn
NoWindow == [kind |-> "none"]

CfgInit ==
  /\ IS_WINDOWS \in BOOLEAN
  /\ file \in Files
  /\ CFG = Unloaded
  /\ lock_seconds = 0
  /\ st = NoWindow
  /\ now = 0
  /\ visible = FALSE
  /\ exited = FALSE
  /\ shows = 0
  /\ first_start = None
  /\ lastOp = "start"

\* line 118
LoadConfig ==
  /\ CFG = Unloaded
  /\ CFG' = load_config(file)
  /\ lastOp' = "load_config"
  /\ UNCHANGED <<IS_WINDOWS, file, lock_seconds, st, now, visible, exited,
                 shows, first_start>>

\* line 353: ReadWindow(lock_seconds=5); an exception of __init__ is not
\* caught by main() and ends the process before any window exists
Construct ==
  /\ CFG # Unloaded /\ st = NoWindow /\ ~exited
  /\ IF init_raises(CFG, 5)
     THEN /\ exited' = TRUE
          /\ UNCHANGED <<lock_seconds, st>>
     ELSE /\ lock_seconds' = init_lock_seconds(CFG, 5)
          /\ st' = NewWindow(lock_seconds')
          /\ UNCHANGED exited
  /\ lastOp' = "__init__"
  /\ UNCHANGED <<IS_WINDOWS, file, CFG, now, visible, shows, first_start>>

CfgNext ==
  \/ LoadConfig
  \/ Construct

CfgSpec == CfgInit /\ [][CfgNext]_vars

\* ============================================================ properties
LOCKED == st.deadline # None
RELEASED == shows > 0 /\ st.deadline = None

TypeOK ==
  /\ st.remaining \in 0..MaxLock
  /\ st.deadline \in {None} \cup 0..MaxTime
  /\ now \in 0..MaxTime
  /\ shows \in 0..MaxShows

C2_DismissWhileLockedIsNoOp ==
  [][(lastOp' = "safe_close" /\ st.deadline # None)
       => (st' = st /\ exited' = exited)]_vars

\* C3: a close request, in whatever state it arrives, leaves the window
\* visible, the process running and the whole enforcement state unchanged.
C3_CloseRequestRejected ==
  [][(lastOp' = "closeEvent") => (visible' /\ ~exited' /\ st' = st)]_vars

C3_Witness ==
  /\ lastOp = "closeEvent"
  /\ RELEASED
  /\ st.close_enabled
  /\ visible /\ ~exited

\* C4: between two states that both have a deadline pending the stored
\* remaining never increases, and it is never negative.
C4_RemainingNonIncreasing ==
  [][(st.deadline # None /\ st'.deadline # None)
       => (st'.remaining <= st.remaining /\ st'.remaining >= 0)]_vars

\* C5: in every reachable state, running release_enforcement twice gives the
\* state that running it once gives, platform call counts included (so the
\* second run makes no unhook call and no cursor-show call).
C5_ReleaseIdempotent ==
  release_enforcement(release_enforcement(st)) = release_enforcement(st)

C5_Witness ==
  /\ lastOp = "safe_close"
  /\ shows = 1
  /\ st.hook_calls = 1 /\ st.unhook_calls = 1
  /\ st.hide_calls = 1 /\ st.show_calls = 1
  /\ st.remaining = 0

\* C6: with the clock advancing and running countdown timers firing, a
\* pending deadline leads to the released state with the dismiss control
\* enabled; a countdown tick releases exactly when the clock has reached the
\* deadline.
C6_EventuallyReleased ==
  /\ (st.deadline # None) ~> (st.deadline = None /\ st.close_enabled)
  /\ [][(lastOp' = "_tick" /\ st.deadline # None)
          => IF now >= st.deadline
             THEN st'.deadline = None /\ st'.close_enabled /\ st'.remaining = 0
             ELSE st'.deadline = st.deadline]_vars

C6_Witness ==
  /\ lastOp = "_tick"
  /\ RELEASED
  /\ st.close_enabled
  /\ st.remaining = 0
  /\ lock_seconds = MaxLock

\* C7: whether the platform is inert or the hook installation or the cursor
\* hiding failed, no handler fails, every show leaves a deadline and both
\* timers running, and the pending deadline still leads to the released
\* state with the dismiss control enabled.
Degraded == ~IS_WINDOWS \/ ~Truthy(st.kb_hook) \/ ~st.cursor_hidden

C7_DegradedStillReleases ==
  /\ [](shows > 0 => ~st.raised)
  /\ [](lastOp = "showEvent"
          => (st.deadline # None /\ st.countdown_timer /\ st.mouse_lock_timer))
  /\ (st.deadline # None /\ Degraded)
        ~> (st.deadline = None /\ st.close_enabled)

C7_Witness ==
  /\ IS_WINDOWS
  /\ lastOp = "_tick"
  /\ RELEASED /\ st.close_enabled
  /\ st.hook_calls = 0 /\ st.hide_calls = 0

\* C8: once enforcement is released (no deadline pending) or the process has
\* exited, the window holds no hook handle and no hook of the process is
\* installed in the system.
C8_NoHookAfterRelease ==
  (RELEASED \/ exited)
     => (st.kb_hook = None /\ ~st.kb_proc /\ st.os_hooks = 0)

C8_Witness ==
  /\ exited
  /\ st.hook_calls = 2 /\ st.unhook_calls = 2

\* C9 (as stated): for a config file that is a JSON object, absent top-level
\* keys and absent window keys take their defaults and every key present in
\* the file keeps the file's value.
FileObject == CFG # Unloaded /\ file.kind = "json" /\ file.data.kind = "dict"

TopMerged(k) ==
  IF file.data.items[k] = Absent
  THEN CFG.items[k] = default.items[k]
  ELSE CFG.items[k] = file.data.items[k]

WindowMerged ==
  LET win == file.data.items["window"] IN
  /\ CFG.items["window"].kind = "dict"
  /\ \A wk \in WKeys :
       CFG.items["window"].items[wk] =
         IF win = Absent \/ win.items[wk] = Absent
         THEN DefaultWindow.items[wk] ELSE win.items[wk]

C9_MergeKeepsEveryFileValue ==
  FileObject =>
    /\ \A k \in AllKeys \ {"window"} : TopMerged(k)
    /\ LET win == file.data.items["window"] IN
         IF win # Absent /\ win.kind # "dict"
         THEN CFG.items["window"] = win
         ELSE WindowMerged

\* C9 (amended): the same, except that a `window` value of the file that is
\* not a JSON object is replaced by the default window {900, 600}.
C9_MergeAmended ==
  FileObject =>
    /\ \A k \in AllKeys \ {"window"} : TopMerged(k)
    /\ LET win == file.data.items["window"] IN
         IF win # Absent /\ win.kind # "dict"
         THEN CFG.items["window"] = DefaultWindow
         ELSE WindowMerged

OnlyLockSeconds10 ==
  JsonFile(JDict([k \in AllKeys |->
     IF k = "lock_seconds" THEN JInt(10) ELSE Absent]))

C9_Witness ==
  /\ file = OnlyLockSeconds10
  /\ CFG = [default EXCEPT !.items["lock_seconds"] = JInt(10)]

\* C10: a config file that is missing, unreadable, not valid JSON or not a
\* JSON object yields exactly the built-in default record, and load_config
\* returns a record in every case (no exception escapes it).
C10_FallbackIsWhole ==
  CFG # Unloaded =>
    /\ CFG.kind = "dict"
    /\ (file.kind # "json" \/ file.data.kind # "dict") => CFG = default

C10_Witness ==
  /\ file = JsonFile(JList(Keys))
  /\ CFG = default

\* C11: after construction the window exists and its lock_seconds is an
\* integer >= 1: max(1, value) of the configured integer, and 5 when the
\* file has no lock_seconds field or no usable config exists.
FileLockSeconds ==
  IF file.kind = "json" /\ file.data.kind = "dict"
  THEN file.data.items["lock_seconds"] ELSE Absent

C11_LockSecondsCoerced ==
  (lastOp = "__init__") =>
    /\ ~exited /\ st # NoWindow
    /\ lock_seconds >= 1
    /\ FileLockSeconds.kind = "int" => lock_seconds = Max(1, FileLockSeconds.n)
    /\ FileLockSeconds = Absent => lock_seconds = 5

\* C12: a step from LOCKED to not LOCKED is a countdown tick, and once
\* RELEASED the state is never LOCKED again (so the transition happens at
\* most once).
C12_ReleaseOnlyByTickOnce ==
  [][/\ (LOCKED /\ ~LOCKED') => lastOp' = "_tick"
     /\ RELEASED => ~LOCKED']_vars

\* C13: a show event delivered after enforcement has started leaves the
\* deadline, the timers, the hook and the rest of the enforcement state as
\* they were.
C13_ShowAfterStartChangesNothing ==
  [][(lastOp' = "showEvent" /\ shows > 0) => st' = st]_vars

\* C14: once RELEASED, no countdown tick and no pointer-repin tick fires.
C14_NoTickAfterRelease ==
  [][RELEASED => lastOp' \notin {"_tick", "_hold_cursor_center"}]_vars

\* C15: the process never has more than one keystroke hook installed, the
\* installed hooks are exactly the successful installations not yet
\* unhooked, and once released or exited every successful installation has
\* had its one unhook call.
C15_HookPairing ==
  /\ st.os_hooks \in {0, 1}
  /\ st.hook_calls - st.unhook_calls = st.os_hooks
  /\ (st.os_hooks = 1) <=> Truthy(st.kb_hook)
  /\ (RELEASED \/ exited) => st.unhook_calls = st.hook_calls

C15_Witness ==
  /\ shows = 2
  /\ st.orphan_countdown = 1
  /\ RELEASED
  /\ st.hook_calls = 1 /\ st.unhook_calls = 1

\* C16: with the hook installed, the hook's guard remaining > 0 holds in
\* every LOCKED state, so a key event that occurs while LOCKED is swallowed
\* (also after the deadline has passed and before the next tick), and a key
\* event is swallowed only while LOCKED.
C16_KeysSwallowedWhileLocked ==
  /\ (LOCKED /\ Truthy(st.kb_hook)) => st.remaining > 0
  /\ (lastOp = "key_passed" /\ LOCKED) => ~Truthy(st.kb_hook)
  /\ (lastOp = "key_blocked") => LOCKED

\* C17: whenever the dismiss control is enabled, no deadline is pending,
\* both timers of the window are stopped and no hook is installed.
C17_EnabledImpliesReleased ==
  st.close_enabled =>
    /\ st.deadline = None
    /\ ~st.countdown_timer /\ ~st.mouse_lock_timer
    /\ ~Truthy(st.kb_hook)

\* C18: once the release sequence has run (RELEASED, or exited through the
\* dismiss), the cursor-show calls equal the successful cursor-hide calls
\* and the system's cursor display counter is back at its initial value.
C18_CursorRestored ==
  (RELEASED \/ exited) =>
    /\ st.show_calls = st.hide_calls
    /\ st.cursor_count = 0

====
